---- MODULE Spec2Model ----
(***************************************************************************)
(* Appointment portal: the client-side handlers of the React pages and the *)
(* document store they write to.  The store (Firestore) is three           *)
(* collections; every browser tab is a session holding the React state of  *)
(* the pages it has mounted.  Every await of a handler is a step boundary: *)
(* a handler is split into the part that runs up to the store call and the *)
(* part that runs when the store call returns (or throws).                 *)
(***************************************************************************)
EXTENDS Integers, Sequences, FiniteSets, TLC

(***************************************************************************)
(* Bounds of the model.                                                    *)
(***************************************************************************)
MaxAppts == 3          \* appointment documents ever created
MaxLifeAppts == 1      \* appointment documents of a lifecycle run
MaxNow == 1            \* last tick of the clock
MaxRx == 2             \* prescription documents ever created
MaxFb == 2             \* feedback documents ever created
MaxInflight == 1       \* overlapping submissions of one booking form
MaxMeds == 2           \* medicine entries of the prescription form
MaxFormAppts == 1      \* appointment documents of a form-validation run
MaxOverlap == 2        \* requests one session has in flight in an overlap run
MaxOverlapAppts == 2   \* appointment documents of an overlap run

(***************************************************************************)
(* Users, sessions, values.                                                *)
(***************************************************************************)
Patients == {"p1", "p2"}
Doctors == {"d1", "d2"}
PatientSessions == {"ps1", "ps2"}
DoctorSessions == {"ds1", "ds2"}
Sessions == PatientSessions \cup DoctorSessions

\* users/{uid}.name, as copied into appointment documents
UserName(u) ==
  CASE u = "p1" -> "Pat One"
    [] u = "p2" -> "Pat Two"
    [] u = "d1" -> "Doc One"
    [] u = "d2" -> "Doc Two"
    [] OTHER -> "undefined"

\* users/{uid}.role
Role(u) == IF u \in Patients THEN "patient" ELSE "doctor"

NoDoctor == "undefined"      \* the absent doctorId / doctorName field
Null == "null"               \* null where a string is expected
NoId == 0                    \* null where a document id is expected

\* The clock counts ticks; one calendar day is one tick of the clock here,
\* days are numbered from 1 so that 0 can stand for the empty date string.
DayOf(t) == t + 1
EmptyDate == 0
Dates == 1..(MaxNow + 2)

\* Time slot strings "HH:MM" as minutes after midnight; -1 is the empty string.
EmptyTime == -1

\* generateTimeSlots
generateTimeSlots == { hour * 60 + minute : hour \in 9..17, minute \in {0, 30} }

Statuses == <<"pending", "confirmed", "in-progress", "completed">>

StatusRank(st) == CHOOSE i \in 1..4 : Statuses[i] = st

VARIABLES
  now,            \* the wall clock (ticks)
  tzWest,         \* TRUE when the browsers' local time zone is behind UTC
  user,           \* session -> uid of currentUser
  route,          \* session -> the page the session's router shows
  appointments,   \* collection 'appointments': sequence of documents, id = index
  prescriptions,  \* collection 'prescriptions'
  feedback,       \* collection 'feedback'
  bookPage,       \* session -> BookAppointment state
  bookReqs,       \* handleSubmit invocations suspended at an await
  pendingPage,    \* session -> PendingAppointments state
  acceptReqs,     \* handleAcceptAppointment invocations suspended at updateDoc
  doctorPage,     \* session -> DoctorAppointments state
  statusReqs,     \* handleStatusUpdate invocations suspended at updateDoc
  rxReqs,         \* handleSubmitPrescription invocations suspended at addDoc
  patientPage,    \* session -> PatientAppointments state
  fbReqs,         \* handleSubmitFeedback invocations suspended at addDoc
  dashboardPage,  \* session -> Dashboard state
  profilePage,    \* session -> Profile state
  accounts,       \* Firebase Auth: the emails that have an account
  users,          \* collection 'users': set of documents, id = uid
  authContext,    \* session -> AuthProvider state and pending auth notifications
  registerPage,   \* session -> Register state
  signupReqs,     \* Register.handleSubmit / signup invocations suspended at an await
  authReads,      \* onAuthStateChanged callbacks suspended at getDoc
  toast           \* the toast the latest step raised: [s, op, kind, msg, id]

vars == <<now, tzWest, user, route, appointments, prescriptions, feedback,
          bookPage, bookReqs, pendingPage, acceptReqs, doctorPage, statusReqs,
          rxReqs, patientPage, fbReqs, dashboardPage, profilePage,
          accounts, users, authContext, registerPage, signupReqs, authReads, toast>>

storeVars == <<appointments, prescriptions, feedback>>
bookVars == <<bookPage, bookReqs>>
pendingVars == <<pendingPage, acceptReqs>>
doctorVars == <<doctorPage, statusReqs, rxReqs>>
patientVars == <<patientPage, fbReqs>>
statsVars == <<dashboardPage, profilePage>>
authVars == <<accounts, users, authContext, registerPage, signupReqs, authReads>>
envVars == <<now, tzWest, user>>        \* route is listed by each action

ApptIds == 1..Len(appointments)

(***************************************************************************)
(* Initial React state of each page (the useState initialisers).           *)
(***************************************************************************)
EmptyForm == [preferredDoctorId |-> "", date |-> EmptyDate, time |-> EmptyTime,
              healthConcern |-> 0]

BookInit == [formData |-> EmptyForm, loading |-> FALSE]

\* Settled(reqs, s): no handler invocation of session s is suspended in reqs.
\* A session changes route only when the handlers of the page it leaves
\* have returned, so every continuation finds its component mounted.
Settled(reqs, s) == \A r \in reqs : r.s # s

PendingInit == [appointments |-> {}, loading |-> TRUE, acceptingAppointment |-> NoId]

\* an appointment list with no entry (id -> local copy)
EmptyList == [i \in {} |-> "pending"]

EmptyMedicine == [name |-> "", dosage |-> "", frequency |-> ""]

DoctorInit == [appointments |-> EmptyList, prescriptions |-> {},
               showPrescriptionModal |-> NoId,
               prescriptionForm |-> <<EmptyMedicine>>,
               loading |-> TRUE, updatingStatus |-> NoId,
               submittingPrescription |-> FALSE]

FeedbackFormInit == [rating |-> 5, comment |-> 0]

PatientInit == [appointments |-> EmptyList, feedbacks |-> {},
                showFeedbackModal |-> NoId, feedbackForm |-> FeedbackFormInit,
                loading |-> TRUE, submittingFeedback |-> FALSE]

\* A number kept as the quotient num / den that the code computes with
\* floating point division; den is never 0.
Quotient(num, den) == [num |-> num, den |-> den]

DashboardInit == [stats |-> [totalAppointments |-> 0, pendingAppointments |-> 0,
                             completedAppointments |-> 0,
                             averageRating |-> Quotient(0, 1)],
                  recentAppointments |-> {}, loading |-> TRUE]

ProfileInit == [stats |-> [totalAppointments |-> 0, completedAppointments |-> 0,
                           averageRating |-> Quotient(0, 1), totalFeedbacks |-> 0],
                recentFeedbacks |-> {}, loading |-> TRUE]

NoToast == [s |-> Null, op |-> Null, kind |-> Null, msg |-> Null, id |-> 0]

(***************************************************************************)
(* AuthProvider and Register: values and initial states.                  *)
(***************************************************************************)
\* An email address is kept as its two parts; the address of user u is
\* u@domain.
Domains == {"meditrack.local", "example.com"}

Email(u, domain) == [local |-> u, domain |-> domain]

\* email.endsWith('@meditrack.local')
endsWithMeditrackLocal(email) == email.domain = "meditrack.local"

\* currentUser === null
NoUser == [uid |-> Null, email |-> Email(Null, Null), name |-> Null, role |-> Null,
           createdAt |-> 0]

\* The document signup writes to users/{uid}
userData(uid, email, name, role, createdAt) ==
  [uid |-> uid, email |-> email, name |-> name, role |-> role, createdAt |-> createdAt]

\* AuthProvider after its construction: no user, loading, and the first
\* notification of the auth listener (nobody signed in) still to come
AuthInit == [currentUser |-> NoUser, loading |-> TRUE, firebaseUser |-> Null,
             notify |-> <<Null>>]

RegisterInit == [loading |-> FALSE, navigated |-> FALSE]

\* A session that signed in before the run starts: its account and its
\* users document exist and AuthProvider has loaded the document
SignedIn ==
  /\ accounts = { Email(u, "meditrack.local") : u \in Patients \cup Doctors }
  /\ users = { userData(u, Email(u, "meditrack.local"), UserName(u), Role(u), 0) :
                 u \in Patients \cup Doctors }
  /\ authContext = [s \in Sessions |->
       [currentUser |-> userData(user[s], Email(user[s], "meditrack.local"),
                                 UserName(user[s]), Role(user[s]), 0),
        loading |-> FALSE, firebaseUser |-> user[s], notify |-> << >>]]
  /\ registerPage = [s \in Sessions |-> RegisterInit]
  /\ signupReqs = {}
  /\ authReads = {}

\* Fresh browsers and an empty project: nobody has an account
SignedOut ==
  /\ accounts = {}
  /\ users = {}
  /\ authContext = [s \in Sessions |-> AuthInit]
  /\ registerPage = [s \in Sessions |-> RegisterInit]
  /\ signupReqs = {}
  /\ authReads = {}

\* the pages of every session and the three collections after construction
InitPages ==
  /\ now = 0
  /\ tzWest \in BOOLEAN
  /\ user \in { u \in [Sessions -> Patients \cup Doctors] :
                  /\ u["ps1"] = "p1" /\ u["ps2"] \in Patients
                  /\ u["ds1"] = "d1" /\ u["ds2"] \in Doctors }
  /\ route = [s \in Sessions |-> "home"]
  /\ appointments = << >>
  /\ prescriptions = << >>
  /\ feedback = << >>
  /\ bookPage = [s \in PatientSessions |-> BookInit]
  /\ bookReqs = {}
  /\ pendingPage = [s \in DoctorSessions |-> PendingInit]
  /\ acceptReqs = {}
  /\ doctorPage = [s \in DoctorSessions |-> DoctorInit]
  /\ statusReqs = {}
  /\ rxReqs = {}
  /\ patientPage = [s \in PatientSessions |-> PatientInit]
  /\ fbReqs = {}
  /\ dashboardPage = [s \in Sessions |-> DashboardInit]
  /\ profilePage = [s \in Sessions |-> ProfileInit]
  /\ toast = NoToast

Init == InitPages /\ SignedIn

\* A session that shows another page has unmounted Dashboard and Profile
LeaveStats(s) ==
  /\ dashboardPage' = [dashboardPage EXCEPT ![s] = DashboardInit]
  /\ profilePage' = [profilePage EXCEPT ![s] = ProfileInit]

(***************************************************************************)
(* The clock.                                                              *)
(***************************************************************************)
Tick ==
  /\ now < MaxNow
  /\ now' = now + 1
  /\ UNCHANGED <<tzWest, user, route, storeVars, bookVars, pendingVars, doctorVars,
                 patientVars>>
  /\ toast' = NoToast
  /\ UNCHANGED statsVars
  /\ UNCHANGED authVars

(***************************************************************************)
(* BookAppointment page.                                                   *)
(***************************************************************************)
Toast(s, op, kind, msg, id) == [s |-> s, op |-> op, kind |-> kind, msg |-> msg, id |-> id]

\* Route /book-appointment: the page is mounted with its initial state (the
\* doctors list is taken as loaded); the page left is unmounted.
MountBookAppointment(s) ==
  /\ route' = [route EXCEPT ![s] = "book"]
  /\ bookPage' = [bookPage EXCEPT ![s] = BookInit]
  /\ Settled(bookReqs, s) /\ Settled(fbReqs, s)
  /\ patientPage' = [patientPage EXCEPT ![s] = PatientInit]
  /\ UNCHANGED <<envVars, storeVars, bookReqs, fbReqs, pendingVars, doctorVars>>
  /\ toast' = NoToast
  /\ LeaveStats(s)
  /\ UNCHANGED authVars

\* handleInputChange: one field of formData replaced
handleInputChange(s, name, value) ==
  /\ route[s] = "book"
  /\ bookPage' = [bookPage EXCEPT ![s].formData[name] = value]
  /\ UNCHANGED <<envVars, route, storeVars, bookReqs, pendingVars, doctorVars,
                 patientVars>>
  /\ toast' = NoToast
  /\ UNCHANGED statsVars
  /\ UNCHANGED authVars

\* The local calendar day on which new Date(formData.date), parsed as UTC
\* midnight, falls: the day before in a time zone behind UTC.
CapDay(date) == IF tzWest THEN date - 1 ELSE date

\* The documents the daily-cap query returns: patientId == uid and
\* startOfDay <= createdAt <= endOfDay of the day of formData.date.
existingAppointments(uid, date) ==
  { i \in ApptIds : /\ appointments[i].patientId = uid
                    /\ DayOf(appointments[i].createdAt) = CapDay(date) }

DailyCap == 2

FreeReqNo(s) == CHOOSE n \in 1..(Cardinality(bookReqs) + 1) :
                  /\ \A r \in bookReqs : r.s = s => r.n # n
                  /\ \A m \in 1..(n - 1) : \E r \in bookReqs : r.s = s /\ r.n = m

\* !formData.preferredDoctorId || !formData.date || !formData.time ||
\* !formData.healthConcern
MissingField(f) ==
  \/ f.preferredDoctorId = ""
  \/ f.date = EmptyDate
  \/ f.time = EmptyTime
  \/ f.healthConcern = 0

\* A length check that would also turn away a text of exactly 200 characters
ConcernTooLongFrom200(f) == f.healthConcern >= 200

\* formData.healthConcern.length > 200
ConcernTooLong(f) == f.healthConcern > 200

\* handleSubmit up to the await of the daily-cap query: the two validations
BookSubmit(s) ==
  LET f == bookPage[s].formData IN
  /\ route[s] = "book"
  /\ ~bookPage[s].loading
  /\ IF MissingField(f)
     THEN /\ toast' = Toast(s, "book", "error", "Please fill in all fields", 0)
          /\ UNCHANGED bookReqs
     ELSE IF ConcernTooLong(f)
     THEN /\ toast' = Toast(s, "book", "error", "Health concern must be 200 characters or less", 0)
          /\ UNCHANGED bookReqs
     ELSE /\ bookReqs' = bookReqs \cup
               {[s |-> s, n |-> FreeReqNo(s), stage |-> "query", form |-> f,
                 uid |-> user[s], createdAt |-> 0, updatedAt |-> 0]}
          /\ toast' = NoToast
  /\ UNCHANGED <<envVars, route, storeVars, bookPage, pendingVars, doctorVars, patientVars>>
  /\ UNCHANGED statsVars
  /\ UNCHANGED authVars

\* handleSubmit from the return of getDocs to the await of addDoc.  The
\* document passed to addDoc reads the clock twice, Timestamp.now() for
\* createdAt and Timestamp.now() for updatedAt; later is the number of ticks
\* of the clock between the two reads.
BookQueryDone(r, ok, later) ==
  /\ r \in bookReqs
  /\ r.stage = "query"
  /\ now + later <= MaxNow
  /\ IF ~ok
     THEN \* getDocs throws outside the try block: the handler ends there
          /\ later = 0
          /\ bookReqs' = bookReqs \ {r}
          /\ UNCHANGED <<bookPage, now>>
          /\ toast' = NoToast
     ELSE IF Cardinality(existingAppointments(r.uid, r.form.date)) >= DailyCap
     THEN /\ later = 0
          /\ bookReqs' = bookReqs \ {r}
          /\ toast' = Toast(r.s, "book", "error", "You cannot book more than 2 appointments on the same day", 0)
          /\ UNCHANGED <<bookPage, now>>
     ELSE /\ now' = now + later
          /\ bookReqs' = (bookReqs \ {r}) \cup
                           {[r EXCEPT !.stage = "insert", !.createdAt = now,
                                      !.updatedAt = now + later]}
          /\ bookPage' = [bookPage EXCEPT ![r.s].loading = TRUE]
          /\ toast' = NoToast
  /\ UNCHANGED <<tzWest, user, route, storeVars, pendingVars, doctorVars, patientVars>>
  /\ UNCHANGED statsVars
  /\ UNCHANGED authVars

\* The document handleSubmit passes to addDoc
NewAppointment(r) ==
  [patientId |-> r.uid,
   patientName |-> UserName(r.uid),
   preferredDoctorId |-> r.form.preferredDoctorId,
   preferredDoctorName |-> UserName(r.form.preferredDoctorId),
   date |-> r.form.date,
   time |-> r.form.time,
   healthConcern |-> r.form.healthConcern,
   status |-> "pending",
   doctorId |-> NoDoctor,
   doctorName |-> NoDoctor,
   createdAt |-> r.createdAt,
   updatedAt |-> r.updatedAt]

\* handleSubmit from the return (or failure) of addDoc to its end
BookInsertDone(r, ok) ==
  /\ r \in bookReqs
  /\ r.stage = "insert"
  /\ bookReqs' = bookReqs \ {r}
  /\ IF ok
     THEN /\ appointments' = Append(appointments, NewAppointment(r))
          /\ toast' = Toast(r.s, "book", "success", "Appointment booked successfully!", Len(appointments) + 1)
          /\ bookPage' = [bookPage EXCEPT ![r.s] = [formData |-> EmptyForm, loading |-> FALSE]]
     ELSE /\ toast' = Toast(r.s, "book", "error", "Failed to book appointment", 0)
          /\ bookPage' = [bookPage EXCEPT ![r.s].loading = FALSE]
          /\ UNCHANGED appointments
  /\ UNCHANGED <<envVars, route, prescriptions, feedback, pendingVars, doctorVars, patientVars>>
  /\ UNCHANGED statsVars
  /\ UNCHANGED authVars

(***************************************************************************)
(* PendingAppointments page.                                               *)
(***************************************************************************)
\* Route /pending-appointments and the mount effect fetchPendingAppointments.
\* The component state starts from its initialisers, and the list becomes
\* the ids of the documents with status == 'pending' (or stays empty when
\* getDocs throws).  The page left is unmounted.
fetchPendingAppointments(s, ok) ==
  /\ route' = [route EXCEPT ![s] = "pending"]
  /\ Settled(acceptReqs, s) /\ Settled(statusReqs, s) /\ Settled(rxReqs, s)
  /\ doctorPage' = [doctorPage EXCEPT ![s] = DoctorInit]
  /\ IF ok
     THEN /\ pendingPage' = [pendingPage EXCEPT ![s] =
               [appointments |-> { i \in ApptIds : appointments[i].status = "pending" },
                loading |-> FALSE, acceptingAppointment |-> NoId]]
          /\ toast' = NoToast
     ELSE /\ pendingPage' = [pendingPage EXCEPT ![s] =
               [appointments |-> {}, loading |-> FALSE, acceptingAppointment |-> NoId]]
          /\ toast' = Toast(s, "fetchPending", "error", "Failed to load appointments", 0)
  /\ UNCHANGED <<envVars, storeVars, bookVars, acceptReqs, statusReqs, rxReqs, patientVars>>
  /\ LeaveStats(s)
  /\ UNCHANGED authVars

\* handleAcceptAppointment up to the await of updateDoc.  The request keeps
\* what the closure captured: the list of this render and the patch.
AcceptStart(s, id) ==
  /\ ~pendingPage[s].loading
  /\ id \in pendingPage[s].appointments
  /\ pendingPage[s].acceptingAppointment # id
  /\ pendingPage' = [pendingPage EXCEPT ![s].acceptingAppointment = id]
  /\ acceptReqs' = acceptReqs \cup
       {[s |-> s, id |-> id, list |-> pendingPage[s].appointments,
         doctorId |-> user[s], doctorName |-> UserName(user[s]), updatedAt |-> now]}
  /\ UNCHANGED <<envVars, route, storeVars, bookVars, doctorVars, patientVars>>
  /\ toast' = NoToast
  /\ UNCHANGED statsVars
  /\ UNCHANGED authVars

\* An accept that would confirm the appointment without recording the doctor
\* An accept patch that would also write the doctor's name over the patient's
AcceptPatchOverPatient(doc, r) ==
  [doc EXCEPT !.status = "confirmed", !.doctorId = r.doctorId,
              !.doctorName = r.doctorName, !.updatedAt = r.updatedAt,
              !.patientName = r.doctorName]

AcceptPatchStatusOnly(doc, r) ==
  [doc EXCEPT !.status = "confirmed", !.updatedAt = r.updatedAt]

\* The patch of handleAcceptAppointment's updateDoc, applied to a document.
\* updateDoc carries no precondition on the document's current fields.
AcceptPatch(doc, r) ==
  [doc EXCEPT !.status = "confirmed", !.doctorId = r.doctorId,
              !.doctorName = r.doctorName, !.updatedAt = r.updatedAt]

\* handleAcceptAppointment from the return (or failure) of updateDoc
AcceptDone(r, ok) ==
  /\ r \in acceptReqs
  /\ acceptReqs' = acceptReqs \ {r}
  /\ IF ok
     THEN /\ appointments' = [appointments EXCEPT ![r.id] = AcceptPatch(@, r)]
          /\ pendingPage' = [pendingPage EXCEPT ![r.s].appointments = r.list \ {r.id},
                                        ![r.s].acceptingAppointment = NoId]
          /\ toast' = Toast(r.s, "accept", "success", "Appointment accepted successfully!", r.id)
     ELSE /\ pendingPage' = [pendingPage EXCEPT ![r.s].acceptingAppointment = NoId]
          /\ toast' = Toast(r.s, "accept", "error", "Failed to accept appointment", r.id)
          /\ UNCHANGED appointments
  /\ UNCHANGED <<envVars, route, prescriptions, feedback, bookVars, doctorVars, patientVars>>
  /\ UNCHANGED statsVars
  /\ UNCHANGED authVars

(***************************************************************************)
(* DoctorAppointments page.                                                *)
(***************************************************************************)
\* appointment ids that have at least one document in 'prescriptions'
HasPrescription(id) == \E k \in 1..Len(prescriptions) : prescriptions[k].appointmentId = id

\* Route /my-appointments and the mount effect fetchMyAppointments.  outcome "ok": both queries return;
\* "partial": the appointments query returns and a prescriptions query
\* throws after setAppointments; "fail": the appointments query throws.
fetchMyAppointments(s, outcome) ==
  LET mine == { i \in ApptIds : appointments[i].doctorId = user[s] }
      list == [i \in mine |-> appointments[i].status]
      completed == { i \in mine : appointments[i].status = "completed" }
  IN
  /\ route' = [route EXCEPT ![s] = "mine"]
  /\ Settled(acceptReqs, s) /\ Settled(statusReqs, s) /\ Settled(rxReqs, s)
  /\ pendingPage' = [pendingPage EXCEPT ![s] = PendingInit]
  /\ outcome = "partial" => completed # {}
  /\ doctorPage' = [doctorPage EXCEPT ![s] =
       [DoctorInit EXCEPT
          !.appointments = IF outcome = "fail" THEN EmptyList ELSE list,
          !.prescriptions = IF outcome = "ok"
                            THEN { i \in completed : HasPrescription(i) } ELSE {},
          !.loading = FALSE]]
  /\ IF outcome = "ok" THEN toast' = NoToast
     ELSE toast' = Toast(s, "fetchMine", "error", "Failed to load appointments", 0)
  /\ UNCHANGED <<envVars, storeVars, bookVars, acceptReqs, statusReqs, rxReqs, patientVars>>
  /\ LeaveStats(s)
  /\ UNCHANGED authVars

\* A successor function that would start over after completed
getNextStatusCyclic(currentStatus) ==
  CASE currentStatus = "confirmed" -> "in-progress"
    [] currentStatus = "in-progress" -> "completed"
    [] currentStatus = "completed" -> "pending"
    [] OTHER -> Null

getNextStatus(currentStatus) ==
  CASE currentStatus = "confirmed" -> "in-progress"
    [] currentStatus = "in-progress" -> "completed"
    [] OTHER -> Null

\* The status update button and handleStatusUpdate up to the await of
\* updateDoc: the new status is computed from the status of the local copy.
StatusStart(s, id) ==
  LET page == doctorPage[s] IN
  /\ ~page.loading
  /\ id \in DOMAIN page.appointments
  /\ getNextStatus(page.appointments[id]) # Null
  /\ page.updatingStatus # id
  /\ page.showPrescriptionModal = NoId     \* the modal overlay covers the list
  /\ doctorPage' = [doctorPage EXCEPT ![s].updatingStatus = id]
  /\ statusReqs' = statusReqs \cup
       {[s |-> s, id |-> id, newStatus |-> getNextStatus(page.appointments[id]),
         list |-> page.appointments, updatedAt |-> now]}
  /\ UNCHANGED <<envVars, route, storeVars, bookVars, pendingVars, rxReqs, patientVars>>
  /\ toast' = NoToast
  /\ UNCHANGED statsVars
  /\ UNCHANGED authVars

\* A status patch that would also drop the claiming doctor
StatusPatchClearingDoctor(doc, r) ==
  [doc EXCEPT !.status = r.newStatus, !.updatedAt = r.updatedAt,
              !.doctorId = NoDoctor, !.doctorName = NoDoctor]

\* The patch of handleStatusUpdate's updateDoc, applied to a document
StatusPatch(doc, r) == [doc EXCEPT !.status = r.newStatus, !.updatedAt = r.updatedAt]

\* A handler that would update the local copy before knowing the outcome of
\* updateDoc and not take it back on failure
StatusDoneOptimistic(r, ok) ==
  /\ r \in statusReqs
  /\ statusReqs' = statusReqs \ {r}
  /\ doctorPage' = [doctorPage EXCEPT
               ![r.s].appointments = [r.list EXCEPT ![r.id] = r.newStatus],
               ![r.s].updatingStatus = NoId]
  /\ IF ok
     THEN /\ appointments' = [appointments EXCEPT ![r.id] = StatusPatch(@, r)]
          /\ toast' = Toast(r.s, "status", "success", r.newStatus, r.id)
     ELSE /\ toast' = Toast(r.s, "status", "error", "Failed to update appointment status", r.id)
          /\ UNCHANGED appointments
  /\ UNCHANGED <<envVars, route, prescriptions, feedback, bookVars, pendingVars, rxReqs, patientVars>>
  /\ UNCHANGED statsVars
  /\ UNCHANGED authVars

\* handleStatusUpdate from the return (or failure) of updateDoc
StatusDone(r, ok) ==
  /\ r \in statusReqs
  /\ statusReqs' = statusReqs \ {r}
  /\ IF ok
     THEN /\ appointments' = [appointments EXCEPT ![r.id] = StatusPatch(@, r)]
          /\ doctorPage' = [doctorPage EXCEPT
                       ![r.s].appointments = [r.list EXCEPT ![r.id] = r.newStatus],
                       ![r.s].updatingStatus = NoId]
          /\ toast' = Toast(r.s, "status", "success", r.newStatus, r.id)
     ELSE /\ doctorPage' = [doctorPage EXCEPT ![r.s].updatingStatus = NoId]
          /\ toast' = Toast(r.s, "status", "error", "Failed to update appointment status", r.id)
          /\ UNCHANGED appointments
  /\ UNCHANGED <<envVars, route, prescriptions, feedback, bookVars, pendingVars, rxReqs, patientVars>>
  /\ UNCHANGED statsVars
  /\ UNCHANGED authVars

\* The Add Prescription button: shown for a local copy with status completed
\* and no entry in the local prescriptions map
OpenPrescriptionModal(s, id) ==
  LET page == doctorPage[s] IN
  /\ ~page.loading
  /\ page.showPrescriptionModal = NoId
  /\ id \in DOMAIN page.appointments
  /\ page.appointments[id] = "completed"
  /\ id \notin page.prescriptions
  /\ doctorPage' = [doctorPage EXCEPT ![s].showPrescriptionModal = id]
  /\ UNCHANGED <<envVars, route, storeVars, bookVars, pendingVars, statusReqs, rxReqs,
                 patientVars>>
  /\ toast' = NoToast
  /\ UNCHANGED statsVars
  /\ UNCHANGED authVars

\* The modal's Cancel button
CancelPrescription(s) ==
  /\ doctorPage[s].showPrescriptionModal # NoId
  /\ doctorPage' = [doctorPage EXCEPT ![s].showPrescriptionModal = NoId,
                                      ![s].prescriptionForm = <<EmptyMedicine>>]
  /\ UNCHANGED <<envVars, route, storeVars, bookVars, pendingVars, statusReqs, rxReqs,
                 patientVars>>
  /\ toast' = NoToast
  /\ UNCHANGED statsVars
  /\ UNCHANGED authVars

handleAddMedicine(s) ==
  /\ doctorPage[s].showPrescriptionModal # NoId
  /\ Len(doctorPage[s].prescriptionForm) < MaxMeds
  /\ doctorPage' = [doctorPage EXCEPT
       ![s].prescriptionForm = Append(@, EmptyMedicine)]
  /\ UNCHANGED <<envVars, route, storeVars, bookVars, pendingVars, statusReqs, rxReqs,
                 patientVars>>
  /\ toast' = NoToast
  /\ UNCHANGED statsVars
  /\ UNCHANGED authVars

\* medicines.filter((_, i) => i !== index)
RemoveAt(seq, index) ==
  [k \in 1..(Len(seq) - 1) |-> IF k < index THEN seq[k] ELSE seq[k + 1]]

\* A remove handler without the check of medicines.length
handleRemoveMedicineUnguarded(s, index) ==
  LET meds == doctorPage[s].prescriptionForm IN
  /\ doctorPage[s].showPrescriptionModal # NoId
  /\ index \in 1..Len(meds)
  /\ doctorPage' = [doctorPage EXCEPT ![s].prescriptionForm = RemoveAt(meds, index)]
  /\ UNCHANGED <<envVars, route, storeVars, bookVars, pendingVars, statusReqs, rxReqs,
                 patientVars>>
  /\ toast' = NoToast
  /\ UNCHANGED statsVars
  /\ UNCHANGED authVars

handleRemoveMedicine(s, index) ==
  LET meds == doctorPage[s].prescriptionForm IN
  /\ doctorPage[s].showPrescriptionModal # NoId
  /\ index \in 1..Len(meds)
  /\ IF Len(meds) > 1
     THEN doctorPage' = [doctorPage EXCEPT ![s].prescriptionForm = RemoveAt(meds, index)]
     ELSE UNCHANGED doctorPage
  /\ UNCHANGED <<envVars, route, storeVars, bookVars, pendingVars, statusReqs, rxReqs,
                 patientVars>>
  /\ toast' = NoToast
  /\ UNCHANGED statsVars
  /\ UNCHANGED authVars

handleMedicineChange(s, index, field, value) ==
  /\ doctorPage[s].showPrescriptionModal # NoId
  /\ index \in 1..Len(doctorPage[s].prescriptionForm)
  /\ doctorPage' = [doctorPage EXCEPT ![s].prescriptionForm[index][field] = value]
  /\ UNCHANGED <<envVars, route, storeVars, bookVars, pendingVars, statusReqs, rxReqs,
                 patientVars>>
  /\ toast' = NoToast
  /\ UNCHANGED statsVars
  /\ UNCHANGED authVars

\* handleSubmitPrescription up to the await of addDoc
PrescriptionSubmit(s) ==
  LET page == doctorPage[s]
      meds == page.prescriptionForm IN
  /\ page.showPrescriptionModal # NoId
  /\ ~page.submittingPrescription
  /\ Len(prescriptions) + Cardinality(rxReqs) < MaxRx
  /\ IF \E k \in 1..Len(meds) :
          meds[k].name = "" \/ meds[k].dosage = "" \/ meds[k].frequency = ""
     THEN /\ toast' = Toast(s, "prescription", "error", "Please fill in all medicine fields",
                            page.showPrescriptionModal)
          /\ UNCHANGED <<doctorPage, rxReqs>>
     ELSE /\ doctorPage' = [doctorPage EXCEPT ![s].submittingPrescription = TRUE]
          /\ rxReqs' = rxReqs \cup
               {[s |-> s, appointmentId |-> page.showPrescriptionModal,
                 medicines |-> meds, createdAt |-> now, map |-> page.prescriptions]}
          /\ toast' = NoToast
  /\ UNCHANGED <<envVars, route, storeVars, bookVars, pendingVars, statusReqs, patientVars>>
  /\ UNCHANGED statsVars
  /\ UNCHANGED authVars

\* The document handleSubmitPrescription passes to addDoc
prescriptionData(r) ==
  [appointmentId |-> r.appointmentId, medicines |-> r.medicines, createdAt |-> r.createdAt]

\* handleSubmitPrescription from the return (or failure) of addDoc
PrescriptionDone(r, ok) ==
  /\ r \in rxReqs
  /\ rxReqs' = rxReqs \ {r}
  /\ IF ok
     THEN /\ prescriptions' = Append(prescriptions, prescriptionData(r))
          /\ doctorPage' = [doctorPage EXCEPT
                       ![r.s].prescriptions = r.map \cup {r.appointmentId},
                       ![r.s].showPrescriptionModal = NoId,
                       ![r.s].prescriptionForm = <<EmptyMedicine>>,
                       ![r.s].submittingPrescription = FALSE]
          /\ toast' = Toast(r.s, "prescription", "success", "Prescription added successfully!",
                            r.appointmentId)
     ELSE /\ doctorPage' = [doctorPage EXCEPT ![r.s].submittingPrescription = FALSE]
          /\ toast' = Toast(r.s, "prescription", "error", "Failed to add prescription",
                            r.appointmentId)
          /\ UNCHANGED prescriptions
  /\ UNCHANGED <<envVars, route, appointments, feedback, bookVars, pendingVars,
                 statusReqs, patientVars>>
  /\ UNCHANGED statsVars
  /\ UNCHANGED authVars

(***************************************************************************)
(* PatientAppointments page.                                               *)
(***************************************************************************)
HasFeedback(id, uid) ==
  \E k \in 1..Len(feedback) : feedback[k].appointmentId = id /\ feedback[k].patientId = uid

\* Route /appointments and the mount effect fetchAppointments.  The local copy of an appointment
\* keeps the fields the page reads: status and doctorId.
fetchAppointments(s, outcome) ==
  LET mine == { i \in ApptIds : appointments[i].patientId = user[s] }
      list == [i \in mine |-> [status |-> appointments[i].status,
                               doctorId |-> appointments[i].doctorId]]
      completed == { i \in mine : appointments[i].status = "completed" }
  IN
  /\ route' = [route EXCEPT ![s] = "appointments"]
  /\ Settled(bookReqs, s) /\ Settled(fbReqs, s)
  /\ bookPage' = [bookPage EXCEPT ![s] = BookInit]
  /\ outcome = "partial" => completed # {}
  /\ patientPage' = [patientPage EXCEPT ![s] =
       [PatientInit EXCEPT
          !.appointments = IF outcome = "fail" THEN EmptyList ELSE list,
          !.feedbacks = IF outcome = "ok"
                        THEN { i \in completed : HasFeedback(i, user[s]) } ELSE {},
          !.loading = FALSE]]
  /\ IF outcome = "ok" THEN toast' = NoToast
     ELSE toast' = Toast(s, "fetchAppointments", "error", "Failed to load appointments", 0)
  /\ UNCHANGED <<envVars, storeVars, bookReqs, fbReqs, pendingVars, doctorVars>>
  /\ LeaveStats(s)
  /\ UNCHANGED authVars

\* The Leave Feedback button: shown for a local copy with status completed,
\* a doctorId and no entry in the local feedbacks map
OpenFeedbackModal(s, id) ==
  LET page == patientPage[s] IN
  /\ ~page.loading
  /\ page.showFeedbackModal = NoId
  /\ id \in DOMAIN page.appointments
  /\ page.appointments[id].status = "completed"
  /\ page.appointments[id].doctorId # NoDoctor
  /\ id \notin page.feedbacks
  /\ patientPage' = [patientPage EXCEPT ![s].showFeedbackModal = id]
  /\ UNCHANGED <<envVars, route, storeVars, bookVars, pendingVars, doctorVars, fbReqs>>
  /\ toast' = NoToast
  /\ UNCHANGED statsVars
  /\ UNCHANGED authVars

\* The modal's Cancel button
CancelFeedback(s) ==
  /\ patientPage[s].showFeedbackModal # NoId
  /\ patientPage' = [patientPage EXCEPT ![s].showFeedbackModal = NoId,
                                        ![s].feedbackForm = FeedbackFormInit]
  /\ UNCHANGED <<envVars, route, storeVars, bookVars, pendingVars, doctorVars, fbReqs>>
  /\ toast' = NoToast
  /\ UNCHANGED statsVars
  /\ UNCHANGED authVars

\* renderStars' onRate and the comment textarea's onChange
SetFeedbackForm(s, field, value) ==
  /\ patientPage[s].showFeedbackModal # NoId
  /\ patientPage' = [patientPage EXCEPT ![s].feedbackForm[field] = value]
  /\ UNCHANGED <<envVars, route, storeVars, bookVars, pendingVars, doctorVars, fbReqs>>
  /\ toast' = NoToast
  /\ UNCHANGED statsVars
  /\ UNCHANGED authVars

\* !feedbackForm.rating
RatingMissing(form) == form.rating = 0

\* A length check that would let a comment of 151 characters through
CommentTooLongFrom152(form) == form.comment > 151

\* feedbackForm.comment.length > 150
CommentTooLong(form) == form.comment > 150

\* The Submit Feedback button and handleSubmitFeedback up to the await of addDoc
FeedbackSubmit(s) ==
  LET page == patientPage[s]
      id == page.showFeedbackModal
      form == page.feedbackForm IN
  /\ id # NoId
  /\ ~page.submittingFeedback
  /\ Len(feedback) + Cardinality(fbReqs) < MaxFb
  /\ id \in DOMAIN page.appointments
  /\ page.appointments[id].doctorId # NoDoctor
  /\ IF RatingMissing(form)
     THEN /\ toast' = Toast(s, "feedback", "error", "Please provide a rating", id)
          /\ UNCHANGED <<patientPage, fbReqs>>
     ELSE IF CommentTooLong(form)
     THEN /\ toast' = Toast(s, "feedback", "error", "Comment must be 150 characters or less", id)
          /\ UNCHANGED <<patientPage, fbReqs>>
     ELSE /\ patientPage' = [patientPage EXCEPT ![s].submittingFeedback = TRUE]
          /\ fbReqs' = fbReqs \cup
               {[s |-> s, appointmentId |-> id, patientId |-> user[s],
                 doctorId |-> page.appointments[id].doctorId,
                 rating |-> form.rating, comment |-> form.comment,
                 createdAt |-> now, map |-> page.feedbacks]}
          /\ toast' = NoToast
  /\ UNCHANGED <<envVars, route, storeVars, bookVars, pendingVars, doctorVars>>
  /\ UNCHANGED statsVars
  /\ UNCHANGED authVars

\* feedbackForm.comment || null: the empty comment is stored as null.
\* Comments are modelled by their length; -1 stands for null.
NoComment == -1

CommentOrNull(comment) == IF comment = 0 THEN NoComment ELSE comment

\* The document handleSubmitFeedback passes to addDoc
feedbackData(r) ==
  [appointmentId |-> r.appointmentId, patientId |-> r.patientId, doctorId |-> r.doctorId,
   rating |-> r.rating, comment |-> CommentOrNull(r.comment), createdAt |-> r.createdAt]

\* A handler that would write the feedback under the appointment's id
\* (setDoc), replacing the one stored for that appointment
FeedbackDoneReplacing(r, ok) ==
  /\ r \in fbReqs
  /\ fbReqs' = fbReqs \ {r}
  /\ IF ok
     THEN /\ feedback' =
               IF \E k \in 1..Len(feedback) : feedback[k].appointmentId = r.appointmentId
               THEN [k \in 1..Len(feedback) |->
                       IF feedback[k].appointmentId = r.appointmentId
                       THEN feedbackData(r) ELSE feedback[k]]
               ELSE Append(feedback, feedbackData(r))
          /\ patientPage' = [patientPage EXCEPT
                       ![r.s].feedbacks = r.map \cup {r.appointmentId},
                       ![r.s].showFeedbackModal = NoId,
                       ![r.s].feedbackForm = FeedbackFormInit,
                       ![r.s].submittingFeedback = FALSE]
          /\ toast' = Toast(r.s, "feedback", "success", "Feedback submitted successfully!",
                            r.appointmentId)
     ELSE /\ patientPage' = [patientPage EXCEPT ![r.s].submittingFeedback = FALSE]
          /\ toast' = Toast(r.s, "feedback", "error", "Failed to submit feedback",
                            r.appointmentId)
          /\ UNCHANGED feedback
  /\ UNCHANGED <<envVars, route, appointments, prescriptions, bookVars, pendingVars,
                 doctorVars>>
  /\ UNCHANGED statsVars
  /\ UNCHANGED authVars

\* handleSubmitFeedback from the return (or failure) of addDoc
FeedbackDone(r, ok) ==
  /\ r \in fbReqs
  /\ fbReqs' = fbReqs \ {r}
  /\ IF ok
     THEN /\ feedback' = Append(feedback, feedbackData(r))
          /\ patientPage' = [patientPage EXCEPT
                       ![r.s].feedbacks = r.map \cup {r.appointmentId},
                       ![r.s].showFeedbackModal = NoId,
                       ![r.s].feedbackForm = FeedbackFormInit,
                       ![r.s].submittingFeedback = FALSE]
          /\ toast' = Toast(r.s, "feedback", "success", "Feedback submitted successfully!",
                            r.appointmentId)
     ELSE /\ patientPage' = [patientPage EXCEPT ![r.s].submittingFeedback = FALSE]
          /\ toast' = Toast(r.s, "feedback", "error", "Failed to submit feedback",
                            r.appointmentId)
          /\ UNCHANGED feedback
  /\ UNCHANGED <<envVars, route, appointments, prescriptions, bookVars, pendingVars,
                 doctorVars>>
  /\ UNCHANGED statsVars
  /\ UNCHANGED authVars

(***************************************************************************)
(* Dashboard and Profile pages.                                            *)
(***************************************************************************)
\* The appointments query of both pages: patientId == uid for a patient,
\* doctorId == uid for a doctor
OwnAppointments(u) ==
  { i \in ApptIds : IF Role(u) = "patient" THEN appointments[i].patientId = u
                                           ELSE appointments[i].doctorId = u }

\* A filter that would count every appointment but those with the status
CountWithoutStatus(ids, st) == Cardinality({ i \in ids : appointments[i].status # st })

\* appointments.filter(apt => apt.status === st).length
CountWithStatus(ids, st) == Cardinality({ i \in ids : appointments[i].status = st })

\* The feedback query of both pages: doctorId == uid
OwnFeedback(u) == { k \in 1..Len(feedback) : feedback[k].doctorId = u }

\* feedbacks.reduce((sum, feedback) => sum + feedback.rating, 0)
RECURSIVE totalRating(_)
totalRating(ks) ==
  IF ks = {} THEN 0
  ELSE LET k == CHOOSE x \in ks : TRUE IN feedback[k].rating + totalRating(ks \ {k})

\* averageRating: 0 unless feedbacks.length > 0, then totalRating / feedbacks.length
averageRating(ks) ==
  IF Cardinality(ks) > 0 THEN Quotient(totalRating(ks), Cardinality(ks))
  ELSE Quotient(0, 1)

\* no handler invocation of session s is suspended at a store call
SettledAll(s) ==
  /\ Settled(bookReqs, s) /\ Settled(fbReqs, s)
  /\ Settled(acceptReqs, s) /\ Settled(statusReqs, s) /\ Settled(rxReqs, s)

\* the pages of session s other than Dashboard and Profile are unmounted
LeavePages(s) ==
  /\ bookPage' = IF s \in PatientSessions THEN [bookPage EXCEPT ![s] = BookInit]
                 ELSE bookPage
  /\ patientPage' = IF s \in PatientSessions THEN [patientPage EXCEPT ![s] = PatientInit]
                    ELSE patientPage
  /\ pendingPage' = IF s \in DoctorSessions THEN [pendingPage EXCEPT ![s] = PendingInit]
                    ELSE pendingPage
  /\ doctorPage' = IF s \in DoctorSessions THEN [doctorPage EXCEPT ![s] = DoctorInit]
                   ELSE doctorPage

\* Route /dashboard and the mount effect fetchDashboardData.  outcome "ok":
\* the queries return; "partial": the appointments query returns and the
\* feedback query throws after setRecentAppointments; "fail": the
\* appointments query throws.  The catch block writes to the console, which
\* is recorded in toast with kind "console".  recentAppointments is
\* appointments.slice(0, 5), kept as the set of ids (the bounds keep the
\* result under five documents).
fetchDashboardData(s, outcome) ==
  LET u == user[s]
      mine == OwnAppointments(u)
      completedAppointments == CountWithStatus(mine, "completed")
      rated == Role(u) = "doctor" /\ completedAppointments > 0
      stats == [totalAppointments |-> Cardinality(mine),
                pendingAppointments |-> CountWithStatus(mine, "pending"),
                completedAppointments |-> completedAppointments,
                averageRating |-> IF rated THEN averageRating(OwnFeedback(u))
                                  ELSE Quotient(0, 1)]
  IN
  /\ route[s] # "dashboard"
  /\ route' = [route EXCEPT ![s] = "dashboard"]
  /\ SettledAll(s)
  /\ LeavePages(s)
  /\ outcome = "partial" => rated
  /\ dashboardPage' = [dashboardPage EXCEPT ![s] =
       [stats |-> IF outcome = "ok" THEN stats ELSE DashboardInit.stats,
        recentAppointments |-> IF outcome = "fail" THEN {} ELSE mine,
        loading |-> FALSE]]
  /\ profilePage' = [profilePage EXCEPT ![s] = ProfileInit]
  /\ IF outcome = "ok" THEN toast' = NoToast
     ELSE toast' = Toast(s, "dashboard", "console", "Error fetching dashboard data:", 0)
  /\ UNCHANGED <<envVars, storeVars, bookReqs, acceptReqs, statusReqs, rxReqs, fbReqs>>
  /\ UNCHANGED authVars

\* The state fetchProfileData sets when its queries return.  recentFeedbacks
\* is feedbacks.slice(0, 5) with the patient name looked up in the
\* appointments of the first query, kept as a set.
ProfileView(s) ==
  LET u == user[s]
      mine == OwnAppointments(u)
      fb == IF Role(u) = "doctor" THEN OwnFeedback(u) ELSE {}
  IN [stats |-> [totalAppointments |-> Cardinality(mine),
                 completedAppointments |-> CountWithStatus(mine, "completed"),
                 averageRating |-> averageRating(fb),
                 totalFeedbacks |-> Cardinality(fb)],
      recentFeedbacks |->
        { [feedback |-> k,
           patientName |-> IF feedback[k].appointmentId \in mine
                           THEN appointments[feedback[k].appointmentId].patientName
                           ELSE "Unknown Patient"] : k \in fb },
      loading |-> FALSE]

\* A profile fetch that would stamp the appointments it reads
fetchProfileDataStamping(s, outcome) ==
  /\ route[s] # "profile"
  /\ route' = [route EXCEPT ![s] = "profile"]
  /\ SettledAll(s)
  /\ LeavePages(s)
  /\ profilePage' = [profilePage EXCEPT ![s] = ProfileView(s)]
  /\ dashboardPage' = [dashboardPage EXCEPT ![s] = DashboardInit]
  /\ toast' = NoToast
  /\ appointments' = [i \in ApptIds |->
       IF i \in OwnAppointments(user[s]) THEN [appointments[i] EXCEPT !.updatedAt = now + 1]
       ELSE appointments[i]]
  /\ UNCHANGED <<envVars, prescriptions, feedback, bookReqs, acceptReqs, statusReqs,
                 rxReqs, fbReqs>>
  /\ UNCHANGED authVars

\* Route /profile and the mount effect fetchProfileData.  outcome "fail": one
\* of the queries throws, and nothing but loading is set.
fetchProfileData(s, outcome) ==
  /\ route[s] # "profile"
  /\ route' = [route EXCEPT ![s] = "profile"]
  /\ SettledAll(s)
  /\ LeavePages(s)
  /\ profilePage' = [profilePage EXCEPT ![s] =
       IF outcome = "ok" THEN ProfileView(s) ELSE [ProfileInit EXCEPT !.loading = FALSE]]
  /\ dashboardPage' = [dashboardPage EXCEPT ![s] = DashboardInit]
  /\ IF outcome = "ok" THEN toast' = NoToast
     ELSE toast' = Toast(s, "profile", "console", "Error fetching profile data:", 0)
  /\ UNCHANGED <<envVars, storeVars, bookReqs, acceptReqs, statusReqs, rxReqs, fbReqs>>
  /\ UNCHANGED authVars

(***************************************************************************)
(* AuthProvider and the Register page.                                     *)
(***************************************************************************)
appVars == <<envVars, route, storeVars, bookVars, pendingVars, doctorVars, patientVars,
             statsVars>>

\* The callback AuthProvider registers with onAuthStateChanged, from its
\* invocation with the next pending notification up to its await of getDoc
\* (or to its end, for the notification that nobody is signed in).
onAuthStateChanged(s) ==
  LET ctx == authContext[s]
      firebaseUser == Head(ctx.notify)
  IN
  /\ ctx.notify # << >>
  /\ IF firebaseUser # Null
     THEN /\ authReads' = authReads \cup {[s |-> s, uid |-> firebaseUser]}
          /\ authContext' = [authContext EXCEPT ![s].notify = Tail(ctx.notify)]
     ELSE /\ authContext' = [authContext EXCEPT ![s].currentUser = NoUser,
                                                ![s].loading = FALSE,
                                                ![s].notify = Tail(ctx.notify)]
          /\ UNCHANGED authReads
  /\ toast' = NoToast
  /\ UNCHANGED <<appVars, accounts, users, registerPage, signupReqs>>

\* The callback from the return of getDoc(users/{uid}): the document read is
\* the one stored at that moment
AuthReadDone(r) ==
  LET docs == { d \in users : d.uid = r.uid } IN
  /\ r \in authReads
  /\ authReads' = authReads \ {r}
  /\ IF docs # {}
     THEN authContext' = [authContext EXCEPT
            ![r.s].currentUser = CHOOSE d \in docs : TRUE, ![r.s].loading = FALSE]
     ELSE authContext' = [authContext EXCEPT ![r.s].loading = FALSE]
  /\ toast' = NoToast
  /\ UNCHANGED <<appVars, accounts, users, registerPage, signupReqs>>

\* The forms a user submits on the Register page: the name typed or left
\* empty, the domain of the email, the length of the password, and whether
\* the confirmation repeats the password.  The role is the user's.
RegisterForms(u) ==
  [name : {"", UserName(u)}, email : { Email(u, d) : d \in Domains },
   password : {5, 6}, confirmed : BOOLEAN, role : {Role(u)}]

\* Register.handleSubmit up to signup's await of
\* createUserWithEmailAndPassword.  The page is rendered while AuthProvider
\* is not loading and has no currentUser.
RegisterSubmit(s, form) ==
  /\ ~authContext[s].loading
  /\ authContext[s].currentUser = NoUser
  /\ ~registerPage[s].loading
  /\ ~registerPage[s].navigated
  /\ IF form.name = ""
     THEN /\ toast' = Toast(s, "register", "error", "Please fill in all fields", 0)
          /\ UNCHANGED <<registerPage, signupReqs>>
     ELSE IF ~endsWithMeditrackLocal(form.email)
     THEN /\ toast' = Toast(s, "register", "error",
                            "Only @meditrack.local email addresses are allowed", 0)
          /\ UNCHANGED <<registerPage, signupReqs>>
     ELSE IF ~form.confirmed
     THEN /\ toast' = Toast(s, "register", "error", "Passwords do not match", 0)
          /\ UNCHANGED <<registerPage, signupReqs>>
     ELSE IF form.password < 6
     THEN /\ toast' = Toast(s, "register", "error",
                            "Password must be at least 6 characters long", 0)
          /\ UNCHANGED <<registerPage, signupReqs>>
     ELSE /\ registerPage' = [registerPage EXCEPT ![s].loading = TRUE]
          /\ signupReqs' = signupReqs \cup
               {[s |-> s, stage |-> "create", uid |-> user[s], form |-> form, createdAt |-> 0]}
          /\ toast' = NoToast
  /\ UNCHANGED <<appVars, accounts, users, authContext, authReads>>

\* signup from the return (or failure) of createUserWithEmailAndPassword to
\* its await of setDoc.  Firebase Auth refuses an email that has an account;
\* on success the new user is signed in, which notifies the auth listener.
\* On failure signup throws and Register.handleSubmit reports the error.
CreateUserDone(r, ok) ==
  /\ r \in signupReqs
  /\ r.stage = "create"
  /\ ok => r.form.email \notin accounts
  /\ IF ok
     THEN /\ accounts' = accounts \cup {r.form.email}
          /\ authContext' = [authContext EXCEPT
               ![r.s].firebaseUser = r.uid,
               ![r.s].notify = Append(@, r.uid)]
          /\ signupReqs' = (signupReqs \ {r}) \cup
               {[r EXCEPT !.stage = "write", !.createdAt = now]}
          /\ toast' = NoToast
          /\ UNCHANGED registerPage
     ELSE /\ signupReqs' = signupReqs \ {r}
          /\ registerPage' = [registerPage EXCEPT ![r.s].loading = FALSE]
          /\ toast' = Toast(r.s, "register", "error", "Registration failed", 0)
          /\ UNCHANGED <<accounts, authContext>>
  /\ UNCHANGED <<appVars, users, authReads>>

\* signup from the return (or failure) of setDoc(users/{uid}, userData), and
\* the rest of Register.handleSubmit: navigate('/dashboard') after a signup
\* that returned, the error toast after one that threw, setLoading(false).
SetDocDone(r, ok) ==
  /\ r \in signupReqs
  /\ r.stage = "write"
  /\ signupReqs' = signupReqs \ {r}
  /\ IF ok
     THEN /\ users' = { d \in users : d.uid # r.uid } \cup
                        {userData(r.uid, r.form.email, r.form.name, r.form.role, r.createdAt)}
          /\ registerPage' = [registerPage EXCEPT ![r.s].loading = FALSE,
                                                  ![r.s].navigated = TRUE]
          /\ toast' = Toast(r.s, "signup", "success", "Account created successfully!", 0)
     ELSE /\ registerPage' = [registerPage EXCEPT ![r.s].loading = FALSE]
          /\ toast' = Toast(r.s, "register", "error", "Registration failed", 0)
          /\ UNCHANGED users
  /\ UNCHANGED <<appVars, accounts, authContext, authReads>>

(***************************************************************************)
(* Specifications.  Each one lets the users of the sessions press a part   *)
(* of the buttons; the handlers are the same in all of them.               *)
(***************************************************************************)
\* session s has fewer than limit store calls of one kind in flight
Idle(reqs, s, limit) == Cardinality({ r \in reqs : r.s = s }) < limit

\* room for one more appointment document, counting the bookings in flight
RoomFor(limit) == Len(appointments) + Cardinality(bookReqs) < limit

\* The values a user of the booking form picks in the lifecycle runs
LifeFormValue(name) ==
  CASE name = "preferredDoctorId" -> "d1"
    [] name = "date" -> DayOf(now)
    [] name = "time" -> 540
    [] name = "healthConcern" -> 8

\* the order of the fields on the page
FormOrder == <<"preferredDoctorId", "date", "time", "healthConcern">>

\* field k of the form is the first one still empty
NextField(s, k) ==
  /\ bookPage[s].formData[FormOrder[k]] = EmptyForm[FormOrder[k]]
  /\ \A j \in 1..(k - 1) : bookPage[s].formData[FormOrder[j]] # EmptyForm[FormOrder[j]]

\* Patient ps1 books up to limit appointments, one submission at a time,
\* filling the form from top to bottom.
LifeBook(limit) ==
  \/ route["ps1"] # "book" /\ RoomFor(limit) /\ MountBookAppointment("ps1")
  \/ \E k \in 1..Len(FormOrder) :
       /\ NextField("ps1", k)
       /\ RoomFor(limit)
       /\ handleInputChange("ps1", FormOrder[k], LifeFormValue(FormOrder[k]))
  \/ RoomFor(limit) /\ bookReqs = {} /\ BookSubmit("ps1")
  \/ \E r \in bookReqs, ok \in BOOLEAN : BookQueryDone(r, ok, 0)
  \/ \E r \in bookReqs, ok \in BOOLEAN : BookInsertDone(r, ok)

Claiming(S) ==
  \/ \E s \in S, ok \in BOOLEAN : fetchPendingAppointments(s, ok)
  \/ \E s \in S, id \in ApptIds :
       Idle(acceptReqs, s, MaxInflight) /\ AcceptStart(s, id)
  \/ \E r \in acceptReqs, ok \in BOOLEAN : AcceptDone(r, ok)

Advancing(S, outcomes) ==
  \/ \E s \in S, outcome \in outcomes : fetchMyAppointments(s, outcome)
  \/ \E s \in S, id \in ApptIds :
       Idle(statusReqs, s, MaxInflight) /\ StatusStart(s, id)
  \/ \E r \in statusReqs, ok \in BOOLEAN : StatusDone(r, ok)

(***************************************************************************)
(* Spec: the appointment lifecycle.  One patient session books, two doctor *)
(* sessions (of one doctor or of two) accept and advance.                  *)
(***************************************************************************)
Next ==
  \/ LifeBook(MaxLifeAppts)
  \/ Claiming(DoctorSessions)
  \/ Advancing(DoctorSessions, {"ok", "fail"})

InitLife == Init /\ ~tzWest /\ user["ps2"] = "p1"

Spec == InitLife /\ [][Next]_vars

(***************************************************************************)
(* SpecBook: admission.  Two patient sessions fill and submit the booking  *)
(* form while the clock runs; submissions may overlap.  SpecBookSeq is the *)
(* same with one submission at a time.                                     *)
(***************************************************************************)
\* The values offered by the form's controls: the doctors of the select, the
\* dates from today on (the date input's min), one slot, one text.
BookFormValues(name) ==
  CASE name = "preferredDoctorId" -> {"d1"}
    [] name = "date" -> { d \in Dates : d >= DayOf(now) }
    [] name = "time" -> {540}
    [] name = "healthConcern" -> {8}

Filling ==
  \/ \E s \in PatientSessions : route[s] # "book" /\ MountBookAppointment(s)
  \/ \E s \in PatientSessions, k \in 1..Len(FormOrder) :
       \E value \in BookFormValues(FormOrder[k]) :
         /\ NextField(s, k)
         /\ RoomFor(MaxAppts)
         /\ handleInputChange(s, FormOrder[k], value)

Returning ==
  \/ \E r \in bookReqs, ok \in BOOLEAN, later \in {0, 1} : BookQueryDone(r, ok, later)
  \/ \E r \in bookReqs, ok \in BOOLEAN : BookInsertDone(r, ok)

NextBook ==
  \/ Tick
  \/ Filling
  \/ \E s \in PatientSessions :
       RoomFor(MaxAppts) /\ Idle(bookReqs, s, MaxInflight) /\ BookSubmit(s)
  \/ Returning

NextBookSeq ==
  \/ Tick
  \/ Filling
  \/ \E s \in PatientSessions : RoomFor(MaxAppts) /\ bookReqs = {} /\ BookSubmit(s)
  \/ Returning

SpecBook == Init /\ [][NextBook]_vars

SpecBookSeq == Init /\ [][NextBookSeq]_vars

(***************************************************************************)
(* SpecRx: the lifecycle and the prescription modal.  A doctor fills the   *)
(* one medicine entry of the form from left to right.                      *)
(***************************************************************************)
MedicineFields == <<"name", "dosage", "frequency">>

\* field k of the first medicine entry is the first one still empty
NextMedicineField(s, k) ==
  LET med == doctorPage[s].prescriptionForm[1] IN
  /\ med[MedicineFields[k]] = ""
  /\ \A j \in 1..(k - 1) : med[MedicineFields[j]] # ""

Prescribing(S) ==
  \/ \E s \in S, id \in ApptIds : OpenPrescriptionModal(s, id)
  \/ \E s \in S : CancelPrescription(s)
  \/ \E s \in S, k \in 1..Len(MedicineFields) :
       /\ NextMedicineField(s, k)
       /\ handleMedicineChange(s, 1, MedicineFields[k], "x")
  \/ \E s \in S : PrescriptionSubmit(s)
  \/ \E r \in rxReqs, ok \in BOOLEAN : PrescriptionDone(r, ok)

NextRx ==
  \/ LifeBook(MaxLifeAppts)
  \/ Claiming(DoctorSessions)
  \/ Advancing(DoctorSessions, {"ok", "fail", "partial"})
  \/ Prescribing(DoctorSessions)

SpecRx == InitLife /\ [][NextRx]_vars

(***************************************************************************)
(* SpecFb: the lifecycle driven by one doctor session, and the feedback    *)
(* modal of the patient sessions.                                          *)
(***************************************************************************)
FeedbackFormValues(field) ==
  CASE field = "rating" -> {1, 5}
    [] field = "comment" -> {0, 150}

Reviewing(S) ==
  \/ \E s \in S, outcome \in {"ok", "fail", "partial"} :
       fetchAppointments(s, outcome)
  \/ \E s \in S, id \in ApptIds : OpenFeedbackModal(s, id)
  \/ \E s \in S : CancelFeedback(s)
  \/ \E s \in S, field \in {"rating", "comment"} :
       \E value \in FeedbackFormValues(field) :
         /\ patientPage[s].feedbackForm[field] # value
         /\ SetFeedbackForm(s, field, value)
  \/ \E s \in S : FeedbackSubmit(s)
  \/ \E r \in fbReqs, ok \in BOOLEAN : FeedbackDone(r, ok)

NextFb ==
  \/ LifeBook(MaxLifeAppts)
  \/ Claiming({"ds1"})
  \/ Advancing({"ds1"}, {"ok"})
  \/ Reviewing(PatientSessions)

InitFb == Init /\ ~tzWest /\ user["ds2"] = "d2"

SpecFb == InitFb /\ [][NextFb]_vars

(***************************************************************************)
(* SpecFbLife: the lifecycle driven by both doctor sessions, and the       *)
(* feedback modal of one patient session.                                  *)
(***************************************************************************)
NextFbLife ==
  \/ LifeBook(MaxLifeAppts)
  \/ Claiming(DoctorSessions)
  \/ Advancing(DoctorSessions, {"ok"})
  \/ Reviewing({"ps1"})

SpecFbLife == InitLife /\ [][NextFbLife]_vars

(***************************************************************************)
(* SpecBookForm: the checks of handleSubmit.  The state of the booking     *)
(* form takes every kind of value a change event can put there: a field    *)
(* set and cleared again, the first and the last options of the time       *)
(* select, a text of 200 and of 201 characters (the handler's own length   *)
(* check does not rest on the textarea's maxLength).  The clock stands.    *)
(***************************************************************************)
FormValues(name) ==
  CASE name = "preferredDoctorId" -> {"", "d1"}
    [] name = "date" -> {EmptyDate, DayOf(now)}
    [] name = "time" -> {EmptyTime} \cup { t \in generateTimeSlots : t = 540 \/ t >= 1020 }
    [] name = "healthConcern" -> {0, 200, 201}

NextBookForm ==
  \/ route["ps1"] # "book" /\ MountBookAppointment("ps1")
  \/ \E k \in 1..Len(FormOrder) : \E value \in FormValues(FormOrder[k]) :
       /\ bookPage["ps1"].formData[FormOrder[k]] # value
       /\ handleInputChange("ps1", FormOrder[k], value)
  \/ /\ \/ RoomFor(MaxFormAppts)
        \/ MissingField(bookPage["ps1"].formData)
        \/ ConcernTooLong(bookPage["ps1"].formData)
     /\ bookReqs = {}
     /\ BookSubmit("ps1")
  \/ \E r \in bookReqs, ok \in BOOLEAN : BookQueryDone(r, ok, 0)
  \/ \E r \in bookReqs, ok \in BOOLEAN : BookInsertDone(r, ok)

SpecBookForm == InitLife /\ [][NextBookForm]_vars

(***************************************************************************)
(* SpecFbForm and SpecFbRating: the checks of handleSubmitFeedback.  One   *)
(* doctor session brings an appointment to completed.  In SpecFbForm the   *)
(* comment of the feedback form is a text of 0, 150 or 151 characters; in  *)
(* SpecFbRating the rating of the form is any number from 0 to 6.          *)
(***************************************************************************)
FeedbackFormAny(field) ==
  CASE field = "rating" -> 0..6
    [] field = "comment" -> {0, 150, 151}

\* the feedback modal with the form's field set to any of its values
ReviewingAny(S, field) ==
  \/ \E s \in S : fetchAppointments(s, "ok")
  \/ \E s \in S, id \in ApptIds : OpenFeedbackModal(s, id)
  \/ \E s \in S : CancelFeedback(s)
  \/ \E s \in S, value \in FeedbackFormAny(field) :
       /\ patientPage[s].feedbackForm[field] # value
       /\ SetFeedbackForm(s, field, value)
  \/ \E s \in S : FeedbackSubmit(s)
  \/ \E r \in fbReqs, ok \in BOOLEAN : FeedbackDone(r, ok)

NextFbForm ==
  \/ LifeBook(MaxLifeAppts)
  \/ Claiming({"ds1"})
  \/ Advancing({"ds1"}, {"ok"})
  \/ ReviewingAny({"ps1"}, "comment")

SpecFbForm == InitFb /\ [][NextFbForm]_vars

NextFbRating ==
  \/ LifeBook(MaxLifeAppts)
  \/ Claiming({"ds1"})
  \/ Advancing({"ds1"}, {"ok"})
  \/ ReviewingAny({"ps1"}, "rating")

SpecFbRating == InitFb /\ [][NextFbRating]_vars

(***************************************************************************)
(* SpecRxForm: the patient books, then one doctor session takes an         *)
(* appointment to completed and                                            *)
(* works the prescription form: entries are added and removed, and the    *)
(* fields of any entry are set to a text or cleared.                       *)
(***************************************************************************)
MedicineValues == {"", "x"}

\* Entry index of the form is edited from its first field to its last: the
\* field set is the first empty one, the field cleared is the last filled one.
EditInOrder(s, index, k, value) ==
  LET meds == doctorPage[s].prescriptionForm
      filled == { j \in 1..Len(MedicineFields) : meds[index][MedicineFields[j]] # "" }
  IN /\ index \in 1..Len(meds)
     /\ filled = 1..Cardinality(filled)
     /\ IF value = "" THEN k = Cardinality(filled) ELSE k = Cardinality(filled) + 1

PrescribingAny(S) ==
  \/ \E s \in S, id \in ApptIds : statusReqs = {} /\ OpenPrescriptionModal(s, id)
  \/ \E s \in S : CancelPrescription(s)
  \/ \E s \in S : handleAddMedicine(s)
  \/ \E s \in S, index \in 1..MaxMeds : handleRemoveMedicine(s, index)
  \/ \E s \in S, index \in 1..MaxMeds, k \in 1..Len(MedicineFields), value \in MedicineValues :
       /\ EditInOrder(s, index, k, value)
       /\ handleMedicineChange(s, index, MedicineFields[k], value)
  \/ \E s \in S : PrescriptionSubmit(s)
  \/ \E r \in rxReqs, ok \in BOOLEAN : PrescriptionDone(r, ok)

NextRxForm ==
  \/ route["ds1"] = "home" /\ LifeBook(MaxLifeAppts)
  \/ Claiming({"ds1"})
  \/ Advancing({"ds1"}, {"ok"})
  \/ PrescribingAny({"ds1"})

SpecRxForm == InitFb /\ [][NextRxForm]_vars

(***************************************************************************)
(* SpecAll: the five writing operations one after the other.  The patient *)
(* books; one doctor session then claims, advances and prescribes, up to   *)
(* the moment the patient opens the appointments page to give feedback.    *)
(* Either of the two starts something only while the other has no form     *)
(* filled, no modal open and no request in flight.                         *)
(***************************************************************************)
PatientQuiet ==
  /\ bookReqs = {} /\ fbReqs = {}
  /\ \A s \in PatientSessions :
       /\ patientPage[s].showFeedbackModal = NoId
       /\ bookPage[s].formData = EmptyForm

DoctorQuiet ==
  /\ acceptReqs = {} /\ statusReqs = {} /\ rxReqs = {}
  /\ \A s \in DoctorSessions : doctorPage[s].showPrescriptionModal = NoId

\* the feedback modal with a rating chosen and no comment typed
ReviewingRated(S) ==
  \/ \E s \in S, outcome \in {"ok", "partial"} : fetchAppointments(s, outcome)
  \/ \E s \in S, id \in ApptIds : OpenFeedbackModal(s, id)
  \/ \E s \in S : CancelFeedback(s)
  \/ \E s \in S, value \in FeedbackFormValues("rating") :
       /\ patientPage[s].feedbackForm.rating # value
       /\ SetFeedbackForm(s, "rating", value)
  \/ \E s \in S : FeedbackSubmit(s)
  \/ \E r \in fbReqs, ok \in BOOLEAN : FeedbackDone(r, ok)

NextAll ==
  \/ route["ds1"] = "home" /\ LifeBook(MaxLifeAppts)
  \/ DoctorQuiet /\ ReviewingRated({"ps1"})
  \/ PatientQuiet /\ route["ps1"] # "appointments" /\ Claiming({"ds1"})
  \/ PatientQuiet /\ route["ps1"] # "appointments" /\ Advancing({"ds1"}, {"ok"})
  \/ PatientQuiet /\ route["ps1"] # "appointments" /\ Prescribing({"ds1"})

SpecAll == InitFb /\ [][NextAll]_vars

(***************************************************************************)
(* SpecOverlap: one doctor session with two appointments presses Accept    *)
(* or the status button of one appointment while the request it started    *)
(* for another is still in flight.                                         *)
(* SpecBookOverlap: one patient session presses the submit button again    *)
(* while its earlier submission is still in flight.                        *)
(***************************************************************************)
ClaimingOverlap(S) ==
  \/ \E s \in S : fetchPendingAppointments(s, TRUE)
  \/ \E s \in S, id \in ApptIds :
       Idle(acceptReqs, s, MaxOverlap) /\ AcceptStart(s, id)
  \/ \E r \in acceptReqs, ok \in BOOLEAN : AcceptDone(r, ok)

AdvancingOverlap(S) ==
  \/ \E s \in S : fetchMyAppointments(s, "ok")
  \/ \E s \in S, id \in ApptIds :
       Idle(statusReqs, s, MaxOverlap) /\ StatusStart(s, id)
  \/ \E r \in statusReqs, ok \in BOOLEAN : StatusDone(r, ok)

NextOverlap ==
  \/ LifeBook(MaxOverlapAppts)
  \/ ClaimingOverlap({"ds1"})
  \/ AdvancingOverlap({"ds1"})

SpecOverlap == InitFb /\ [][NextOverlap]_vars

NextBookOverlap ==
  \/ route["ps1"] # "book" /\ RoomFor(MaxOverlapAppts) /\ MountBookAppointment("ps1")
  \/ \E k \in 1..Len(FormOrder) :
       /\ NextField("ps1", k)
       /\ RoomFor(MaxOverlapAppts)
       /\ handleInputChange("ps1", FormOrder[k], LifeFormValue(FormOrder[k]))
  \/ RoomFor(MaxOverlapAppts) /\ Idle(bookReqs, "ps1", MaxOverlap) /\ BookSubmit("ps1")
  \/ Returning

SpecBookOverlap == InitFb /\ [][NextBookOverlap]_vars

(***************************************************************************)
(* SpecStats: the lifecycle driven by one doctor session, with the patient *)
(* and the doctor looking at Dashboard and Profile in between.             *)
(* SpecStatsFb: both doctor sessions, the feedback modal of the patient,   *)
(* and the first doctor session looking at Dashboard and Profile.          *)
(***************************************************************************)
Viewing(S) ==
  \/ \E s \in S, outcome \in {"ok", "fail", "partial"} : fetchDashboardData(s, outcome)
  \/ \E s \in S, outcome \in {"ok", "fail"} : fetchProfileData(s, outcome)

NextStats ==
  \/ LifeBook(MaxLifeAppts)
  \/ Claiming({"ds1"})
  \/ Advancing({"ds1"}, {"ok"})
  \/ Viewing({"ps1", "ds1"})

SpecStats == InitFb /\ [][NextStats]_vars

NextStatsFb ==
  \/ NextFbLife
  \/ Viewing({"ds1"})

SpecStatsFb == InitLife /\ [][NextStatsFb]_vars

(***************************************************************************)
(* SpecAuth: fresh browsers register their users.  Every call to Firebase  *)
(* returns or fails, and every pending notification of the auth listener   *)
(* is delivered.                                                           *)
(***************************************************************************)
AuthSessions == {"ps1", "ps2", "ds1"}

Delivering == \E s \in AuthSessions : onAuthStateChanged(s)

ReadReturning == \E r \in authReads : AuthReadDone(r)

CreateReturning == \E r \in signupReqs, ok \in BOOLEAN : CreateUserDone(r, ok)

WriteReturning == \E r \in signupReqs, ok \in BOOLEAN : SetDocDone(r, ok)

NextAuth ==
  \/ \E s \in AuthSessions : \E form \in RegisterForms(user[s]) : RegisterSubmit(s, form)
  \/ Delivering
  \/ ReadReturning
  \/ CreateReturning
  \/ WriteReturning

InitAuth == InitPages /\ ~tzWest /\ user["ps2"] = "p1" /\ user["ds2"] = "d2" /\ SignedOut

SpecAuth ==
  /\ InitAuth /\ [][NextAuth]_vars
  /\ WF_vars(Delivering) /\ WF_vars(ReadReturning)
  /\ WF_vars(CreateReturning) /\ WF_vars(WriteReturning)

(***************************************************************************)
(* Properties.                                                             *)
(***************************************************************************)
AcceptSucceeds == toast'.op = "accept" /\ toast'.kind = "success"

StatusUpdateSucceeds == toast'.op = "status" /\ toast'.kind = "success"

\* C1: of the claims made by several doctors on one pending appointment
\* exactly one succeeds: an accept reports success only when no other doctor
\* has claimed the appointment before its write, and the stored doctor is
\* then the one of that accept.
C1_OneClaimSucceeds ==
  [][AcceptSucceeds =>
       /\ appointments[toast'.id].doctorId \in {NoDoctor, user[toast'.s]}
       /\ appointments'[toast'.id].doctorId = user[toast'.s]]_vars

\* C2: the stored status of an appointment never goes backwards in the
\* order pending < confirmed < in-progress < completed.
C2_StatusNeverRegresses ==
  [][\A id \in ApptIds :
       StatusRank(appointments'[id].status) >= StatusRank(appointments[id].status)]_vars

\* C3: once the doctorId of an appointment is set, no step changes it to
\* another doctor or clears it.
C3_ClaimedDoctorIsFinal ==
  [][\A id \in ApptIds :
       appointments[id].doctorId # NoDoctor =>
         appointments'[id].doctorId = appointments[id].doctorId]_vars

\* C4: in every reachable state, an appointment has no doctorId exactly
\* when its stored status is pending.
C4_DoctorUnsetIffPending ==
  \A id \in ApptIds :
    (appointments[id].doctorId = NoDoctor) <=> (appointments[id].status = "pending")

\* C4 witness: an appointment that was booked, accepted and advanced to
\* completed, and carries the doctor who accepted it
C4_Witness ==
  \E id \in ApptIds :
    /\ appointments[id].status = "completed"
    /\ appointments[id].doctorId \in Doctors

\* the appointments of patient p created on calendar day d
CreatedOn(p, d) ==
  { i \in ApptIds : appointments[i].patientId = p /\ DayOf(appointments[i].createdAt) = d }

Days == { DayOf(t) : t \in 0..MaxNow }

\* C5: with one booking submission at a time, a patient never has more
\* than 2 appointments whose createdAt falls on the same calendar day.
C5_DailyCapSequential ==
  \A p \in Patients, d \in Days : Cardinality(CreatedOn(p, d)) <= DailyCap

\* C6: with overlapping booking submissions, the count and the insert act
\* as one unit: the bookings that the cap query counts on their own day of
\* creation never exceed 2 per patient and day.
C6_CapUnderConcurrency ==
  \A p \in Patients, d \in Days :
    Cardinality({ i \in CreatedOn(p, d) : CapDay(appointments[i].date) = d }) <= DailyCap

\* C7: there is at most one prescription document per appointment.
C7_OnePrescriptionPerAppointment ==
  \A id \in ApptIds :
    Cardinality({ k \in 1..Len(prescriptions) : prescriptions[k].appointmentId = id }) <= 1

\* C8: there is at most one feedback document per appointment and patient.
C8_OneFeedbackPerAppointment ==
  \A id \in ApptIds, p \in Patients :
    Cardinality({ k \in 1..Len(feedback) :
                    feedback[k].appointmentId = id /\ feedback[k].patientId = p }) <= 1

\* C9: a prescription document is created only for an appointment whose
\* stored status is completed at the time of the write.
C9_PrescriptionOnlyWhenCompleted ==
  [][Len(prescriptions') > Len(prescriptions) =>
       appointments[prescriptions'[Len(prescriptions')].appointmentId].status
         = "completed"]_vars

\* C10: a status update is applied only when the caller is the doctor
\* stored as the doctorId of the appointment at the time of the write.
C10_OnlyClaimedDoctorAdvances ==
  [][StatusUpdateSucceeds =>
       appointments[toast'.id].doctorId = user[toast'.s]]_vars

\* C11: an advance is applied only as confirmed -> in-progress or
\* in-progress -> completed relative to the status stored at the time of the
\* write: the status a successful status update writes is the immediate
\* successor of the stored one.
C11_AdvanceOnlyToSuccessor ==
  [][StatusUpdateSucceeds =>
       appointments'[toast'.id].status = getNextStatus(appointments[toast'.id].status)]_vars

\* an accept by the doctor whose claim on the appointment is already stored
RetriedClaim == AcceptSucceeds /\ appointments[toast'.id].doctorId = user[toast'.s]

\* a status update that writes a status the appointment has already reached
RetriedAdvance ==
  /\ StatusUpdateSucceeds
  /\ StatusRank(appointments[toast'.id].status) >= StatusRank(appointments'[toast'.id].status)

\* C12: a claim or an advance that is issued again after it has been applied
\* leaves the stored status and the stored doctor of the appointment as they
\* were before the retry.
C12_RetryLeavesAppointment ==
  [][RetriedClaim \/ RetriedAdvance =>
       /\ appointments'[toast'.id].status = appointments[toast'.id].status
       /\ appointments'[toast'.id].doctorId = appointments[toast'.id].doctorId]_vars

FeedbackSucceeds == toast'.op = "feedback" /\ toast'.kind = "success"

\* C13: a feedback document is created only by the patient of its
\* appointment and only while the stored status of that appointment is
\* completed.
C13_FeedbackByPatientWhenCompleted ==
  [][FeedbackSucceeds =>
       /\ appointments[toast'.id].patientId = user[toast'.s]
       /\ appointments[toast'.id].status = "completed"]_vars

PrescriptionSucceeds == toast'.op = "prescription" /\ toast'.kind = "success"

\* C14: a prescription document is created only by the doctor who is
\* stored as the doctorId of its appointment at the time of the write.
C14_PrescriptionByClaimedDoctor ==
  [][PrescriptionSucceeds =>
       appointments[toast'.id].doctorId = user[toast'.s]]_vars

CommentRejected ==
  /\ toast'.op = "feedback"
  /\ toast'.msg = "Comment must be 150 characters or less"

\* C16: a feedback submission with a comment of more than 150 characters is
\* rejected and creates no request and no document; a comment of up to 150
\* characters, or none, is never turned away for its length; every stored
\* comment is null or at most 150 characters long.
C16_CommentAtMost150 ==
  [][/\ \A r \in fbReqs' \ fbReqs : r.comment <= 150
     /\ \A k \in 1..Len(feedback') : feedback'[k].comment <= 150
     /\ CommentRejected =>
          /\ patientPage[toast'.s].feedbackForm.comment > 150
          /\ fbReqs' = fbReqs
          /\ feedback' = feedback]_vars

\* C16 witness: a comment of 151 characters was submitted and turned away,
\* nothing was stored
C16_Witness ==
  /\ toast.op = "feedback"
  /\ toast.msg = "Comment must be 150 characters or less"
  /\ patientPage[toast.s].feedbackForm.comment = 151
  /\ fbReqs = {}
  /\ feedback = << >>

\* a toast of one of the two input checks of handleSubmit
InputRejected ==
  /\ toast'.op = "book"
  /\ toast'.msg \in {"Please fill in all fields",
                     "Health concern must be 200 characters or less"}

\* C17: a booking request with a field missing or a health concern of more
\* than 200 characters is rejected before the daily-cap query is issued and
\* creates no appointment; a complete form with a health concern of up to
\* 200 characters is not turned away by these checks.
C17_InvalidInputRejected ==
  [][/\ \A r \in bookReqs' \ bookReqs :
          ~MissingField(r.form) /\ r.form.healthConcern <= 200
     /\ \A i \in 1..Len(appointments') :
          /\ appointments'[i].preferredDoctorId # ""
          /\ appointments'[i].date # EmptyDate
          /\ appointments'[i].time # EmptyTime
          /\ appointments'[i].healthConcern \in 1..200
     /\ InputRejected =>
          /\ \/ MissingField(bookPage[toast'.s].formData)
             \/ bookPage[toast'.s].formData.healthConcern > 200
          /\ bookReqs' = bookReqs
          /\ appointments' = appointments]_vars

\* C17 witness: an appointment with a health concern of exactly 200
\* characters is stored, and a later request with 201 characters was
\* turned away
C17_Witness ==
  /\ \E i \in ApptIds : appointments[i].healthConcern = 200
  /\ toast.op = "book"
  /\ toast.msg = "Health concern must be 200 characters or less"
  /\ bookPage[toast.s].formData.healthConcern = 201
  /\ bookReqs = {}

\* C18: no stored appointment has a date earlier than the calendar day of
\* its createdAt.
C18_DateNotBeforeCreation ==
  \A i \in ApptIds : appointments[i].date >= DayOf(appointments[i].createdAt)

\* C19: the time of every stored appointment is one of the half-hour slots
\* from 09:00 through 17:00 inclusive.
C19_TimeIsAdmissibleSlot ==
  \A i \in ApptIds :
    appointments[i].time \in { hour * 60 + minute : hour \in 9..16, minute \in {0, 30} }
                                \cup {17 * 60}

\* C20: every stored appointment was created pending, without a doctor,
\* under its patient's name, and with createdAt equal to updatedAt (the
\* booking specifications never change an appointment after its creation).
C20_CreatedPendingAndStamped ==
  \A i \in ApptIds :
    /\ appointments[i].status = "pending"
    /\ appointments[i].doctorId = NoDoctor
    /\ appointments[i].patientId \in Patients
    /\ appointments[i].patientName = UserName(appointments[i].patientId)
    /\ appointments[i].createdAt = appointments[i].updatedAt

\* the fields of an appointment that are written at creation only
CreationFields ==
  {"patientId", "patientName", "preferredDoctorId", "preferredDoctorName",
   "date", "time", "healthConcern", "createdAt"}

\* the fields written by a claim
ClaimFields == {"doctorId", "doctorName"}

\* documents a and b agree on every field of the set
SameOn(a, b, fields) == \A f \in fields : a[f] = b[f]

\* C27: a successful status update leaves patientId, patientName, doctorId,
\* doctorName, preferredDoctorId, preferredDoctorName, date, time,
\* healthConcern and createdAt of the appointment as they were (only status
\* and updatedAt may differ), and leaves every other appointment unchanged.
C27_StatusUpdateFrame ==
  [][StatusUpdateSucceeds =>
       /\ Len(appointments') = Len(appointments)
       /\ \A id \in ApptIds :
            IF id = toast'.id
            THEN /\ SameOn(appointments[id], appointments'[id], CreationFields \cup ClaimFields)
                 /\ appointments'[id].status = toast'.msg
            ELSE appointments'[id] = appointments[id]]_vars

\* C27 witness: a status update has just succeeded and the appointment is
\* stored in-progress with its patient and doctor
C27_Witness ==
  /\ toast.op = "status" /\ toast.kind = "success"
  /\ appointments[toast.id].status = "in-progress"
  /\ appointments[toast.id].doctorId = user[toast.s]
  /\ appointments[toast.id].patientId \in Patients

\* C28: a successful claim sets status to confirmed and doctorId and
\* doctorName to the claimer's, and changes no other field but updatedAt
\* and no other appointment; and in every step of every operation each
\* stored appointment keeps its patientId, patientName, preferredDoctorId,
\* preferredDoctorName, date, time, healthConcern and createdAt.
C28_ClaimFrame ==
  [][/\ \A id \in ApptIds :
          /\ id \in 1..Len(appointments')
          /\ SameOn(appointments[id], appointments'[id], CreationFields)
     /\ AcceptSucceeds =>
          /\ appointments'[toast'.id].status = "confirmed"
          /\ appointments'[toast'.id].doctorId = user[toast'.s]
          /\ appointments'[toast'.id].doctorName = UserName(user[toast'.s])
          /\ \A id \in ApptIds \ {toast'.id} : appointments'[id] = appointments[id]]_vars

\* C28 witness: a claim has just succeeded on an appointment whose preferred
\* doctor is not the claimer
C28_Witness ==
  /\ toast.op = "accept" /\ toast.kind = "success"
  /\ appointments[toast.id].status = "confirmed"
  /\ appointments[toast.id].doctorId = user[toast.s]
  /\ appointments[toast.id].preferredDoctorId # user[toast.s]

\* C30: an appointment whose stored status is not pending is not pending
\* after any step of any session.
C30_NeverBackToPending ==
  [][\A id \in ApptIds :
       appointments[id].status # "pending" => appointments'[id].status # "pending"]_vars

\* C30 witness: a claim has just been written to an appointment that the
\* session of another doctor already holds in its list of claimed
\* appointments, that is, to an appointment that was no longer pending
C30_Witness ==
  /\ toast.op = "accept" /\ toast.kind = "success"
  /\ \E s \in DoctorSessions \ {toast.s} : toast.id \in DOMAIN doctorPage[s].appointments
  /\ appointments[toast.id].status # "pending"

\* C23: an invocation of booking that finishes (its request is in flight
\* before the step and not after it) finishes with a success or an error
\* reported to the session, and with the loading flag cleared, whichever
\* store call returned or failed.
C23_BookingReportsOutcome ==
  [][\A r \in bookReqs :
       (~\E q \in bookReqs' : q.s = r.s /\ q.n = r.n) =>
          /\ toast'.s = r.s /\ toast'.op = "book"
          /\ toast'.kind \in {"success", "error"}
          /\ ~bookPage'[r.s].loading]_vars

\* every medicine of the list has a name, a dosage and a frequency
AllFilled(medicines) ==
  \A k \in 1..Len(medicines) :
    medicines[k].name # "" /\ medicines[k].dosage # "" /\ medicines[k].frequency # ""

\* C22: every stored prescription has at least one medicine and every
\* medicine of it has non-empty name, dosage and frequency; the prescription
\* form of every session always holds at least one medicine entry; a write
\* is started only from a form with every field filled, and only started
\* writes store a record; a submission rejected with the message stores
\* nothing and starts no write.
C22_StoredMedicinesFilled ==
  /\ [](/\ \A k \in 1..Len(prescriptions) :
              Len(prescriptions[k].medicines) >= 1 /\ AllFilled(prescriptions[k].medicines)
        /\ \A s \in DoctorSessions : Len(doctorPage[s].prescriptionForm) >= 1)
  /\ [][/\ \A r \in rxReqs' \ rxReqs :
             /\ AllFilled(doctorPage[r.s].prescriptionForm)
             /\ r.medicines = doctorPage[r.s].prescriptionForm
        /\ toast'.msg = "Please fill in all medicine fields" =>
             /\ ~AllFilled(doctorPage[toast'.s].prescriptionForm)
             /\ UNCHANGED <<prescriptions, rxReqs>>
        /\ prescriptions' # prescriptions =>
             \E r \in rxReqs : prescriptions' = Append(prescriptions, prescriptionData(r))]_vars

\* C22 witness: a prescription with two medicines has just been stored, and
\* the form is back to its single empty entry
C22_Witness ==
  /\ toast.op = "prescription" /\ toast.kind = "success"
  /\ \E k \in 1..Len(prescriptions) : Len(prescriptions[k].medicines) = 2
  /\ doctorPage[toast.s].prescriptionForm = <<EmptyMedicine>>

\* the messages reported when the store write of an operation fails
WriteFailures ==
  {"Failed to book appointment", "Failed to accept appointment",
   "Failed to update appointment status", "Failed to add prescription",
   "Failed to submit feedback"}

\* C21: a step in which the store write of a booking, claim, advance,
\* prescription or feedback fails leaves the stored appointments,
\* prescriptions and feedback as they were, and leaves the pending list, the
\* appointment statuses and the prescription and feedback maps of every
\* session as they were; and the store changes only in a step that reports
\* success.
C21_FailedWriteChangesNothing ==
  [][/\ toast'.msg \in WriteFailures =>
          /\ UNCHANGED storeVars
          /\ \A s \in DoctorSessions :
               /\ pendingPage'[s].appointments = pendingPage[s].appointments
               /\ doctorPage'[s].appointments = doctorPage[s].appointments
               /\ doctorPage'[s].prescriptions = doctorPage[s].prescriptions
          /\ \A s \in PatientSessions :
               /\ patientPage'[s].appointments = patientPage[s].appointments
               /\ patientPage'[s].feedbacks = patientPage[s].feedbacks
     /\ storeVars' # storeVars => toast'.kind = "success"]_vars

\* C21 witness: the write of an advance has just failed on an appointment
\* that is stored and listed as confirmed
C21_Witness ==
  /\ toast.msg = "Failed to update appointment status"
  /\ appointments[toast.id].status = "confirmed"
  /\ toast.id \in DOMAIN doctorPage[toast.s].appointments
  /\ doctorPage[toast.s].appointments[toast.id] = "confirmed"

\* C26: in every step every stored prescription and every stored feedback
\* stays as it is, and none of the three collections loses a record.
C26_RecordsOnlyAdded ==
  [][/\ Len(appointments') >= Len(appointments)
     /\ Len(prescriptions') >= Len(prescriptions)
     /\ Len(feedback') >= Len(feedback)
     /\ \A k \in 1..Len(prescriptions) : prescriptions'[k] = prescriptions[k]
     /\ \A k \in 1..Len(feedback) : feedback'[k] = feedback[k]]_vars

\* C26 witness: a second feedback has just been stored while the first one
\* and a prescription are in the store
C26_Witness ==
  /\ toast.op = "feedback" /\ toast.kind = "success"
  /\ Len(feedback) = 2
  /\ Len(prescriptions) >= 1

\* session s has just loaded the page: the step mounts it and its fetch
\* writes no error to the console
Loaded(s, page) ==
  /\ route[s] # page /\ route'[s] = page
  /\ toast'.kind # "console"

\* the stored appointments of identity u: the ones u booked when u is a
\* patient, the ones u has claimed when u is a doctor
AppointmentsOf(u) ==
  { i \in ApptIds : \/ u \in Patients /\ appointments[i].patientId = u
                    \/ u \in Doctors /\ appointments[i].doctorId = u }

\* the sum of the ratings of the first n stored feedback records of doctor d
RECURSIVE RatingSum(_, _)
RatingSum(d, n) ==
  IF n = 0 THEN 0
  ELSE RatingSum(d, n - 1) + (IF feedback[n].doctorId = d THEN feedback[n].rating ELSE 0)

RatingCount(d) == Cardinality({ k \in 1..Len(feedback) : feedback[k].doctorId = d })

\* quotient q is sum / count, and 0 when count is 0
IsAverage(q, sum, count) ==
  IF count = 0 THEN q.num = 0 ELSE q.num * count = sum * q.den

\* C24: when a doctor's session has loaded Profile, the rating count shown
\* is the number of stored feedback records with that doctor's id and the
\* average is the sum of their ratings divided by the count (0 for count
\* 0); when it has loaded Dashboard, the average is that same value.
C24_RatingCountAndAverage ==
  [][\A s \in DoctorSessions :
       LET d == user[s] IN
       /\ Loaded(s, "profile") =>
            /\ profilePage'[s].stats.totalFeedbacks = RatingCount(d)
            /\ IsAverage(profilePage'[s].stats.averageRating,
                         RatingSum(d, Len(feedback)), RatingCount(d))
       /\ Loaded(s, "dashboard") =>
            IsAverage(dashboardPage'[s].stats.averageRating,
                      RatingSum(d, Len(feedback)), RatingCount(d))]_vars

\* C25: when a session has loaded Dashboard or Profile, the total shown is
\* the number of stored appointments of the session's identity, the pending
\* and completed counts are the numbers of those with status pending and
\* completed, and pending + completed <= total.
C25_AppointmentCounts ==
  [][\A s \in Sessions :
       LET own == AppointmentsOf(user[s])
           pending == Cardinality({ i \in own : appointments[i].status = "pending" })
           completed == Cardinality({ i \in own : appointments[i].status = "completed" })
       IN
       /\ Loaded(s, "dashboard") =>
            /\ dashboardPage'[s].stats.totalAppointments = Cardinality(own)
            /\ dashboardPage'[s].stats.pendingAppointments = pending
            /\ dashboardPage'[s].stats.completedAppointments = completed
            /\ dashboardPage'[s].stats.pendingAppointments
                 + dashboardPage'[s].stats.completedAppointments
                 <= dashboardPage'[s].stats.totalAppointments
       /\ Loaded(s, "profile") =>
            /\ profilePage'[s].stats.totalAppointments = Cardinality(own)
            /\ profilePage'[s].stats.completedAppointments = completed
            /\ profilePage'[s].stats.completedAppointments
                 <= profilePage'[s].stats.totalAppointments]_vars

\* C25 witness: a doctor's Dashboard shows one appointment, completed, and
\* the patient's appointment is stored
C25_Witness ==
  /\ route["ds1"] = "dashboard"
  /\ ~dashboardPage["ds1"].loading
  /\ dashboardPage["ds1"].stats.totalAppointments = 1
  /\ dashboardPage["ds1"].stats.completedAppointments = 1
  /\ toast = NoToast

\* C29: a step that computes the statistics of Dashboard or Profile, with
\* or without success, leaves the stored appointments, prescriptions and
\* feedback unchanged.
C29_StatisticsReadOnly ==
  [][\A s \in Sessions :
       (route'[s] \in {"dashboard", "profile"} /\ route'[s] # route[s]) =>
          UNCHANGED storeVars]_vars

\* C29 witness: a patient's Profile has been computed over a stored
\* appointment
C29_Witness ==
  /\ route["ps1"] = "profile"
  /\ ~profilePage["ps1"].loading
  /\ profilePage["ps1"].stats.totalAppointments = 1
  /\ Len(appointments) = 1

\* C31: in a doctor session that has no status update in flight, the
\* status shown for every appointment of the local list is the stored one
\* (one doctor session is the only writer of its appointments).
C31_ListMatchesStoreAfterUpdates ==
  \A s \in DoctorSessions :
    (route[s] = "mine" /\ \A r \in statusReqs : r.s # s) =>
       \A id \in DOMAIN doctorPage[s].appointments :
         doctorPage[s].appointments[id] = appointments[id].status

\* C32: in a doctor session that has no accept in flight, no appointment of
\* the local pending list is stored as claimed by the session's doctor.
C32_AcceptedLeavesPendingList ==
  \A s \in DoctorSessions :
    (route[s] = "pending" /\ \A r \in acceptReqs : r.s # s) =>
       \A id \in pendingPage[s].appointments :
         ~(appointments[id].status = "confirmed" /\ appointments[id].doctorId = user[s])

\* C33: while an accept or a status update of an appointment is in flight,
\* the busy marker of its session is that appointment's id, so the button
\* of that appointment stays disabled.
C33_BusyMarkerHeld ==
  /\ \A r \in acceptReqs : pendingPage[r.s].acceptingAppointment = r.id
  /\ \A r \in statusReqs : doctorPage[r.s].updatingStatus = r.id

\* C34: a patient session has at most one booking submission in flight, the
\* daily-cap query included.
C34_OneSubmissionInFlight ==
  \A s \in PatientSessions : Cardinality({ r \in bookReqs : r.s = s }) <= 1

\* C35: the doctorId of every stored feedback is the doctorId stored on the
\* appointment the feedback refers to.
C35_FeedbackDoctorIsClaimedDoctor ==
  \A k \in 1..Len(feedback) :
    feedback[k].doctorId = appointments[feedback[k].appointmentId].doctorId

\* C36: when a doctor's session has loaded Dashboard, the average rating it
\* shows is the average rating Profile computes from the same stored
\* appointments and feedback.
C36_DashboardAverageIsProfileAverage ==
  [][\A s \in DoctorSessions :
       Loaded(s, "dashboard") =>
         LET shown == dashboardPage'[s].stats.averageRating
             profile == ProfileView(s).stats.averageRating
         IN shown.num * profile.den = profile.num * shown.den]_vars

\* C37: in every session, once a signup has returned with success (the
\* users document is written and Register has navigated on), currentUser
\* eventually is the stored document of the user who signed up.
C37_SignupLeadsToCurrentUser ==
  \A s \in Sessions :
    registerPage[s].navigated ~>
      (\E d \in users : d.uid = user[s] /\ authContext[s].currentUser = d)

====
